---- MODULE Spec2Model ----
(***************************************************************************)
(* Prompt Maker: the PromptStudio component (its reducer over PromptState, *)
(* the editors that dispatch to it, template loading and reset).           *)
(*                                                                         *)
(* A JavaScript string is a sequence of one-character strings; a value is  *)
(* tagged with its type: [str |-> chars], [undef |-> TRUE], or, for an     *)
(* array, [ref |-> address].  An array is an object with an identity: its  *)
(* elements live in the heap, so that sharing between snapshots and the    *)
(* template library is visible.                                            *)
(***************************************************************************)
EXTENDS Integers, Sequences, FiniteSets, TLC

\* Dispatches explored from the initial render.
MaxSteps == 3

(***************************************************************************)
(* Strings                                                                 *)
(***************************************************************************)
LowerChars == {"a"}
UpperChars == {"A"}
SpaceChars == {" ", "\n"}
Chars == LowerChars \cup UpperChars \cup SpaceChars \cup {"_"}

IsSpace(c) == c \in SpaceChars

ToUpperChar(c) == IF c = "a" THEN "A" ELSE c

\* String.prototype.toUpperCase
ToUpperCase(s) == [i \in 1..Len(s) |-> ToUpperChar(s[i])]

RECURSIVE DropSpaces(_)
DropSpaces(s) == IF s # <<>> /\ IsSpace(Head(s)) THEN DropSpaces(Tail(s)) ELSE s

\* value.replace(/\s+/g, "_"): every maximal run of whitespace becomes one "_".
RECURSIVE ReplaceSpaceRuns(_)
ReplaceSpaceRuns(s) ==
    IF s = <<>> THEN <<>>
    ELSE IF IsSpace(Head(s)) THEN <<"_">> \o ReplaceSpaceRuns(DropSpaces(Tail(s)))
    ELSE <<Head(s)>> \o ReplaceSpaceRuns(Tail(s))

\* The normalization with toUpperCase() left out.
NormalizeNameNoUpper(s) == ReplaceSpaceRuns(s)

\* The name box's onChange: event.target.value.replace(/\s+/g, "_").toUpperCase()
NormalizeName(s) == ToUpperCase(ReplaceSpaceRuns(s))

Reverse(s) == [i \in 1..Len(s) |-> s[Len(s) + 1 - i]]

\* String.prototype.trim
Trim(s) == Reverse(DropSpaces(Reverse(DropSpaces(s))))

(***************************************************************************)
(* Arrays                                                                  *)
(***************************************************************************)
\* Array.prototype.includes
Includes(xs, x) == \E i \in 1..Len(xs) : xs[i] = x

\* Array.prototype.filter((item) => item !== x)
RECURSIVE Without(_, _)
Without(xs, x) ==
    IF xs = <<>> THEN <<>>
    ELSE IF Head(xs) = x THEN Without(Tail(xs), x)
    ELSE <<Head(xs)>> \o Without(Tail(xs), x)

\* row.id: undefined for an element that is a string (a character spread out
\* of a string that a list-typed field held).
RowId(row) == IF "id" \in DOMAIN row THEN row.id ELSE [undef |-> TRUE]

\* Array.prototype.filter((row) => row.id !== id)
RECURSIVE WithoutId(_, _)
WithoutId(rows, id) ==
    IF rows = <<>> THEN <<>>
    ELSE IF RowId(Head(rows)) = id THEN WithoutId(Tail(rows), id)
    ELSE <<Head(rows)>> \o WithoutId(Tail(rows), id)

\* Array.prototype.map((row) => row.id === id ? { ...row, [field]: value } : row)
SetField(rows, id, field, value) ==
    [i \in 1..Len(rows) |->
        IF RowId(rows[i]) = id THEN [rows[i] EXCEPT ![field] = value] ELSE rows[i]]

NoDuplicates(xs) == \A i, j \in 1..Len(xs) : xs[i] = xs[j] => i = j

IdsOf(rows) == [i \in 1..Len(rows) |-> RowId(rows[i])]

(***************************************************************************)
(* PromptState                                                             *)
(***************************************************************************)
TextKeys ==
    {"projectTitle", "coreObjective", "targetAudience", "backgroundContext",
     "requiredInputs", "desiredOutput", "successCriteria", "guardrails",
     "creativeAngles", "referenceMaterial", "evaluationStrategy",
     "modelPreferences", "callToAction"}

\* PromptArrayKey: the four tag sets.
ChipKeys == {"toneTraits", "styleGuidelines", "constraints", "keywords"}

RowKeys == {"workflow", "variables"}

ListKeys == ChipKeys \cup RowKeys

Keys == TextKeys \cup ListKeys

VariableFields == {"id", "name", "description", "example"}

WorkflowFields == {"id", "title", "instruction", "expectedOutput"}

(***************************************************************************)
(* JavaScript values                                                       *)
(***************************************************************************)
Str(chars) == [str |-> chars]

Undef == [undef |-> TRUE]

Ref(addr) == [ref |-> addr]

IsStr(v) == "str" \in DOMAIN v

IsUndef(v) == "undef" \in DOMAIN v

IsRef(v) == "ref" \in DOMAIN v

(***************************************************************************)
(* The heap of arrays                                                      *)
(***************************************************************************)
\* The template library's entries (@/data/templates).
TemplateIds == {"tplA", "tplB"}

\* activeTemplate before any template is loaded.
NoTemplate == "(undefined)"

\* An array's address: who allocated it (a template of the library, or the
\* component while building a snapshot), for which field, and which of the
\* two arrays a field can have alive at once (the previous snapshot's and the
\* current one's).
Addr == ({"state"} \cup TemplateIds) \X ListKeys \X {0, 1}

\* Where `new Array` puts a field's next array: the cell of that field that
\* the snapshot s does not reference.
FreshCell(s, k) ==
    IF IsRef(s[k]) /\ s[k].ref = <<"state", k, 0>> THEN <<"state", k, 1>>
    ELSE <<"state", k, 0>>

FreshCells(s) == [k \in ListKeys |-> FreshCell(s, k)]

FirstCells == [k \in ListKeys |-> <<"state", k, 0>>]

\* The arrays a snapshot references.
CellsOf(s) == {s[k].ref : k \in {x \in ListKeys : IsRef(s[x])}}

\* What is left after garbage collection with the snapshots old and new (and
\* the template library) alive.
Collect(h, old, new) ==
    LET alive == CellsOf(old) \cup CellsOf(new)
    IN  [a \in Addr |-> IF a[1] \in TemplateIds \/ a \in alive THEN h[a] ELSE <<>>]

\* The elements of the array a list-typed field references.
Items(h, s, k) == h[s[k].ref]

\* [...state[k]]: the elements of the array, or the characters of the string
\* that an update left in the field.
Spread(h, s, k) ==
    IF IsRef(s[k]) THEN Items(h, s, k)
    ELSE [i \in 1..Len(s[k].str) |-> Str(<<s[k].str[i]>>)]

\* state[k].includes(value): an element of the array, or a substring of the
\* string that an update left in the field.
HasValue(h, s, k, value) ==
    IF IsRef(s[k]) THEN Includes(Items(h, s, k), value)
    ELSE \E i \in 1..(Len(s[k].str) + 1) :
            /\ i + Len(value.str) - 1 <= Len(s[k].str)
            /\ SubSeq(s[k].str, i, i + Len(value.str) - 1) = value.str

(***************************************************************************)
(* @/lib/prompt-utils: identifiers and blank entities                      *)
(***************************************************************************)
DigitChars == <<"1", "2", "3", "4", "5", "6", "7", "8", "9">>

GenId(n) == Str(<<"#", DigitChars[n]>>)

\* The generator's ids already held by some row of a live array.
UsedIdx(h) ==
    {n \in 1..Len(DigitChars) :
        \E a \in Addr : a[2] \in RowKeys /\ \E i \in 1..Len(h[a]) : RowId(h[a][i]) = GenId(n)}

FreeIdx(h) == (1..Len(DigitChars)) \ UsedIdx(h)

Least(S) == CHOOSE n \in S : \A m \in S : n <= m

\* A new unique id.
NewId(h) == GenId(Least(FreeIdx(h)))

\* The id of the next call after NewId's.
NewId2(h) == GenId(Least(FreeIdx(h) \ {Least(FreeIdx(h))}))

createBlankVariable(id) ==
    [id |-> id, name |-> Str(<<>>), description |-> Str(<<>>), example |-> Undef]

createBlankWorkflowStage(id) ==
    [id |-> id, title |-> Str(<<>>), instruction |-> Str(<<>>),
     expectedOutput |-> Str(<<>>)]

\* createDefaultPromptState(), its six new arrays allocated at `cells`:
\* the heap afterwards and the snapshot.
createDefaultPromptState(h, cells) ==
    [heap |->
        [a \in Addr |->
            IF a = cells["variables"] THEN <<createBlankVariable(NewId(h))>>
            ELSE IF a = cells["workflow"] THEN <<createBlankWorkflowStage(NewId2(h))>>
            ELSE IF a \in {cells[k] : k \in ChipKeys} THEN <<>>
            ELSE h[a]],
     state |->
        [k \in Keys |-> IF k \in ListKeys THEN Ref(cells[k]) ELSE Str(<<>>)]]

(***************************************************************************)
(* The reducer                                                             *)
(***************************************************************************)
\* What a call of the reducer leaves behind: the heap, the snapshot it
\* returns, and what the snapshot object it was given holds afterwards.
Returned(h, new, given) == [heap |-> h, state |-> new, input |-> given]

\* { ...s, [k]: <a new array holding items> }
WithNewArray(h, s, k, items) ==
    Returned([h EXCEPT ![FreshCell(s, k)] = items], [s EXCEPT ![k] = Ref(FreshCell(s, k))], s)

caseUpdate(h, s, a) ==
    Returned(h, [s EXCEPT ![a.key] = a.value], s)

\* addChip by existing.push(value) on the array of the snapshot given.
caseAddChipPush(h, s, a) ==
    IF HasValue(h, s, a.key, a.value) THEN Returned(h, s, s)
    ELSE Returned([h EXCEPT ![s[a.key].ref] = Append(Items(h, s, a.key), a.value)], s, s)

\* addChip without the existing.includes(value) check.
caseAddChipNoCheck(h, s, a) ==
    WithNewArray(h, s, a.key, Append(Spread(h, s, a.key), a.value))

caseAddChip(h, s, a) ==
    IF HasValue(h, s, a.key, a.value) THEN Returned(h, s, s)
    ELSE WithNewArray(h, s, a.key, Append(Spread(h, s, a.key), a.value))

\* removeChip by splice(indexOf(value), 1): an index of -1 takes out the last
\* tag.
caseRemoveChipSplice(h, s, a) ==
    WithNewArray(h, s, a.key,
        IF Includes(Items(h, s, a.key), a.value) THEN Without(Items(h, s, a.key), a.value)
        ELSE SubSeq(Items(h, s, a.key), 1, Len(Items(h, s, a.key)) - 1))

caseRemoveChip(h, s, a) ==
    WithNewArray(h, s, a.key, Without(Items(h, s, a.key), a.value))

caseSetChips(h, s, a) ==
    WithNewArray(h, s, a.key, a.value)

caseAddVariable(h, s, a) ==
    WithNewArray(h, s, "variables",
        Append(Spread(h, s, "variables"), createBlankVariable(NewId(h))))

caseRemoveVariable(h, s, a) ==
    WithNewArray(h, s, "variables", WithoutId(Items(h, s, "variables"), a.id))

caseUpdateVariable(h, s, a) ==
    WithNewArray(h, s, "variables",
        SetField(Items(h, s, "variables"), a.id, a.field, a.value))

\* addWorkflow by [createBlankWorkflowStage(), ...state.workflow].
caseAddWorkflowUnshift(h, s, a) ==
    WithNewArray(h, s, "workflow",
        <<createBlankWorkflowStage(NewId(h))>> \o Spread(h, s, "workflow"))

caseAddWorkflow(h, s, a) ==
    WithNewArray(h, s, "workflow",
        Append(Spread(h, s, "workflow"), createBlankWorkflowStage(NewId(h))))

caseRemoveWorkflow(h, s, a) ==
    WithNewArray(h, s, "workflow", WithoutId(Items(h, s, "workflow"), a.id))

caseUpdateWorkflow(h, s, a) ==
    WithNewArray(h, s, "workflow",
        SetField(Items(h, s, "workflow"), a.id, a.field, a.value))

\* { ...action.payload }: a new snapshot object sharing the payload's arrays.
caseHydrate(h, s, a) ==
    Returned(h, [k \in Keys |-> a.payload[k]], s)

\* reducer(state, action), on the heap h.
reducer(h, s, a) ==
    CASE a.type = "update" -> caseUpdate(h, s, a)
      [] a.type = "addChip" -> caseAddChip(h, s, a)
      [] a.type = "removeChip" -> caseRemoveChip(h, s, a)
      [] a.type = "setChips" -> caseSetChips(h, s, a)
      [] a.type = "addVariable" -> caseAddVariable(h, s, a)
      [] a.type = "removeVariable" -> caseRemoveVariable(h, s, a)
      [] a.type = "updateVariable" -> caseUpdateVariable(h, s, a)
      [] a.type = "addWorkflow" -> caseAddWorkflow(h, s, a)
      [] a.type = "removeWorkflow" -> caseRemoveWorkflow(h, s, a)
      [] a.type = "updateWorkflow" -> caseUpdateWorkflow(h, s, a)
      [] a.type = "hydrate" -> caseHydrate(h, s, a)
      [] OTHER -> Returned(h, s, s)

\* The reducer returns the very object it was given: addChip of a value
\* the set holds.
ReturnsStateItself(h, s, a) ==
    a.type = "addChip" /\ HasValue(h, s, a.key, a.value)

\* The list-typed field an action calls filter or map on, if any.  On a
\* string (left there by an update of a list-typed key) the call throws a
\* TypeError and the reducer returns nothing; includes and spread, of the
\* add cases, work on a string as well.
ReadsList(a) ==
    CASE a.type = "removeChip" -> {a.key}
      [] a.type \in {"removeVariable", "updateVariable"} -> {"variables"}
      [] a.type \in {"removeWorkflow", "updateWorkflow"} -> {"workflow"}
      [] OTHER -> {}

(***************************************************************************)
(* The template library and the merge of a template over the defaults      *)
(***************************************************************************)
\* promptTemplates, each entry's `sections` by value: a partial PromptState
\* whose list-typed fields are written [items |-> elements].  A fragment may
\* supply any of the fields, a list-typed one with no element included.
promptTemplates ==
    [tplA |->
        [coreObjective |-> Str(<<"a">>),
         toneTraits |-> [items |-> <<Str(<<"a">>), Str(<<"A">>)>>],
         workflow |->
            [items |->
                <<[id |-> Str(<<"w", "1">>), title |-> Str(<<"A">>),
                   instruction |-> Str(<<"a">>), expectedOutput |-> Str(<<>>)],
                  [id |-> Str(<<"w", "2">>), title |-> Str(<<"a">>),
                   instruction |-> Str(<<>>), expectedOutput |-> Str(<<"a">>)]>>],
         variables |->
            [items |->
                <<[id |-> Str(<<"v", "1">>), name |-> Str(<<"A", "_", "A">>),
                   description |-> Str(<<"a">>), example |-> Str(<<"a">>)]>>]],
     tplB |->
        [targetAudience |-> Str(<<"A">>),
         keywords |-> [items |-> <<Str(<<"a">>)>>],
         workflow |-> [items |-> <<>>],
         variables |-> [items |-> <<>>]]]

IsItems(v) == "items" \in DOMAIN v

\* A library entry's `sections` object: its arrays are objects of the heap.
SectionsOf(lib, t) ==
    [k \in DOMAIN lib[t] |->
        IF IsItems(lib[t][k]) THEN Ref(<<t, k, 0>>) ELSE lib[t][k]]

\* The heap once the module @/data/templates is loaded.
LibraryHeap(lib) ==
    [a \in Addr |->
        IF a[1] \in TemplateIds /\ a[3] = 0 /\ a[2] \in DOMAIN lib[a[1]]
            /\ IsItems(lib[a[1]][a[2]])
        THEN lib[a[1]][a[2]].items ELSE <<>>]

\* y ?? x: the operands of ?? swapped.
CoalesceSwapped(x, y) == IF IsUndef(y) THEN x ELSE y

\* x ?? y
Coalesce(x, y) == IF IsUndef(x) THEN y ELSE x

\* sections.k, undefined when the object has no such property.
Get(sections, k) == IF k \in DOMAIN sections THEN sections[k] ELSE Undef

\* const merged = { ...base, ...template.sections, toneTraits: ... ?? ..., ... }
Merge(base, sections) ==
    [k \in Keys |->
        IF k \in ListKeys THEN Coalesce(Get(sections, k), base[k])
        ELSE IF k \in DOMAIN sections THEN sections[k]
        ELSE base[k]]

(***************************************************************************)
(* The compiler and the evaluator (@/lib/prompt-utils)                     *)
(***************************************************************************)
\* The free-text fields and the tag sets in their declared order.
TextOrder ==
    <<"projectTitle", "coreObjective", "targetAudience", "backgroundContext",
      "requiredInputs", "desiredOutput", "successCriteria", "guardrails",
      "creativeAngles", "referenceMaterial", "evaluationStrategy",
      "modelPreferences", "callToAction">>

ChipOrder == <<"toneTraits", "styleGuidelines", "constraints", "keywords">>

\* The characters of a string, none for a value that is not one.
CharsOf(v) == IF IsStr(v) THEN v.str ELSE <<>>

\* Blank after trimming: nothing but whitespace.
IsBlank(v) == \A i \in 1..Len(CharsOf(v)) : IsSpace(CharsOf(v)[i])

\* The elements of a list-typed field, none when it holds no array.
ListOf(h, s, k) == IF IsRef(s[k]) THEN Items(h, s, k) ELSE <<>>

\* The token sequences of parts, with sep between each two.
RECURSIVE Join(_, _)
Join(parts, sep) ==
    IF parts = <<>> THEN <<>>
    ELSE IF Len(parts) = 1 THEN parts[1]
    ELSE parts[1] \o sep \o Join(Tail(parts), sep)

\* A heading (the field's key stands for its title) over a body.
Section(title, body) == <<title, "\n">> \o body

StageIsBlank(r) == IsBlank(r.title) /\ IsBlank(r.instruction) /\ IsBlank(r.expectedOutput)

\* The stages that are not entirely blank, numbered as emitted.
WorkflowSteps(rows) ==
    LET kept == SelectSeq(rows, LAMBDA r : ~StageIsBlank(r))
    IN  [i \in 1..Len(kept) |->
            <<DigitChars[i], ".", " ">> \o CharsOf(kept[i].title) \o <<"\n">>
                \o CharsOf(kept[i].instruction) \o <<"\n">> \o CharsOf(kept[i].expectedOutput)]

\* NAME - description (example: ...), the example clause only when there is one.
VariableLines(rows) ==
    LET kept == SelectSeq(rows, LAMBDA r : ~IsBlank(r.name))
    IN  [i \in 1..Len(kept) |->
            CharsOf(kept[i].name) \o <<" ", "-", " ">> \o CharsOf(kept[i].description)
                \o (IF IsStr(kept[i].example) THEN <<" ", "(">> \o kept[i].example.str \o <<")">>
                    ELSE <<>>)]

\* The sections of the document, in the fixed order; blank ones are left out.
SectionsOfPrompt(h, s) ==
    LET texts == SelectSeq(TextOrder, LAMBDA k : ~IsBlank(s[k]))
        tags == SelectSeq(ChipOrder, LAMBDA k : ListOf(h, s, k) # <<>>)
        stages == ListOf(h, s, "workflow")
        variables == ListOf(h, s, "variables")
    IN  [i \in 1..Len(texts) |-> Section(texts[i], s[texts[i]].str)]
        \o [i \in 1..Len(tags) |->
                Section(tags[i],
                    Join([j \in 1..Len(ListOf(h, s, tags[i])) |->
                            CharsOf(ListOf(h, s, tags[i])[j])], <<",", " ">>))]
        \o (IF \E i \in 1..Len(stages) :
                    ~IsBlank(stages[i].title) \/ ~IsBlank(stages[i].instruction)
            THEN <<Section("workflow", Join(WorkflowSteps(stages), <<"\n">>))>>
            ELSE <<>>)
        \o (IF \E i \in 1..Len(variables) : ~IsBlank(variables[i].name)
            THEN <<Section("variables", Join(VariableLines(variables), <<"\n">>))>>
            ELSE <<>>)

\* compilePrompt(state): the sections, one blank line between each two.
compilePrompt(h, s) == Str(Join(SectionsOfPrompt(h, s), <<"\n", "\n">>))

\* A field or group is present: a non-blank text, a non-empty list, a row
\* that is not blank.
IsPresent(h, s, k) ==
    IF k \in TextKeys THEN ~IsBlank(s[k])
    ELSE IF k \in ChipKeys THEN ListOf(h, s, k) # <<>>
    ELSE IF k = "workflow"
         THEN \E i \in 1..Len(ListOf(h, s, k)) : ~StageIsBlank(ListOf(h, s, k)[i])
    ELSE \E i \in 1..Len(ListOf(h, s, k)) : ~IsBlank(ListOf(h, s, k)[i].name)

\* generateAssistantInsights(state): the missing sections in declaration
\* order, and a score that counts the present ones.
generateAssistantInsights(h, s) ==
    LET order == TextOrder \o ChipOrder \o <<"workflow", "variables">>
        missing == SelectSeq(order, LAMBDA k : ~IsPresent(h, s, k))
    IN  [missingSections |-> missing, totalScore |-> Len(order) - Len(missing)]

\* useMemo(fresh, deps): the cached value while the dependencies are the
\* same objects, a fresh value otherwise.
useMemoNoDeps(cached, sameDeps, fresh) == cached

useMemo(cached, sameDeps, fresh) == IF sameDeps THEN cached ELSE fresh

\* What a render derives from the snapshot.
Derived(h, s) ==
    [assistant |-> generateAssistantInsights(h, s), compiledPrompt |-> compilePrompt(h, s)]

(***************************************************************************)
(* The refinement route (app/api/refine/route.ts)                          *)
(*                                                                         *)
(* A JSON value is a string, null, a number, an array or an object; a text *)
(* the route sends or receives is a sequence of tokens: single characters, *)
(* and whole words or phrases where only their identity matters.           *)
(***************************************************************************)
Null == [null |-> TRUE]

Num(n) == [num |-> n]

Arr(xs) == [arr |-> xs]

\* An object: a function from its property names to their values.
Obj(f) == [obj |-> f]

\* true and false.
Bool(b) == [bool |-> b]

IsNull(v) == DOMAIN v = {"null"}

IsNum(v) == DOMAIN v = {"num"}

IsArr(v) == DOMAIN v = {"arr"}

IsObj(v) == DOMAIN v = {"obj"}

IsBool(v) == DOMAIN v = {"bool"}

\* JavaScript truthiness.
Truthy(v) ==
    IF IsUndef(v) \/ IsNull(v) THEN FALSE
    ELSE IF IsStr(v) THEN v.str # <<>>
    ELSE IF IsNum(v) THEN v.num # 0
    ELSE IF IsBool(v) THEN v.bool
    ELSE TRUE

\* v?.name: undefined for null and undefined, and for a missing property.
Prop(v, name) == IF IsObj(v) /\ name \in DOMAIN v.obj THEN v.obj[name] ELSE Undef

\* v?.[0]: the first element of an array, the property "0" of an object, the
\* first character of a string (the strings indexed here hold one character
\* per token).
First(v) ==
    IF IsArr(v) THEN (IF v.arr # <<>> THEN v.arr[1] ELSE Undef)
    ELSE IF IsObj(v) THEN Prop(v, "0")
    ELSE IF IsStr(v) THEN (IF v.str # <<>> THEN Str(<<v.str[1]>>) ELSE Undef)
    ELSE Undef

\* x || y
Or(x, y) == IF Truthy(x) THEN x ELSE y

\* JSON.stringify of an object: properties holding undefined are dropped.
Json(f) == Obj([k \in {n \in DOMAIN f : ~IsUndef(f[n])} |-> f[k]])

\* A request or response body that is not JSON.
NotJson == [notJson |-> TRUE]

IsJson(b) == DOMAIN b = {"json"}

\* PROVIDER_ENDPOINTS
PROVIDER_ENDPOINTS ==
    [openai |-> Str(<<"https://api.openai.com/v1/chat/completions">>),
     openrouter |-> Str(<<"https://openrouter.ai/api/v1/chat/completions">>)]

\* The property names an object literal inherits from Object.prototype.
InheritedNames ==
    {"__defineGetter__", "__defineSetter__", "__lookupGetter__", "__lookupSetter__",
     "__proto__", "constructor", "hasOwnProperty", "isPrototypeOf",
     "propertyIsEnumerable", "toLocaleString", "toString", "valueOf"}

\* What an inherited property holds: Object.prototype itself, or a function.
Inherited(name) ==
    IF name = "__proto__" THEN [object |-> "Object.prototype"] ELSE [fn |-> name]

\* String(n): the decimal digits of an integer.
RECURSIVE Digits(_)
Digits(n) ==
    LET chars == <<"0", "1", "2", "3", "4", "5", "6", "7", "8", "9">>
    IN  IF n < 0 THEN <<"-">> \o Digits(0 - n)
        ELSE IF n < 10 THEN <<chars[n + 1]>>
        ELSE Digits(n \div 10) \o <<chars[(n % 10) + 1]>>

\* Array.prototype.join(","), on the texts of the elements.
RECURSIVE JoinTexts(_)
JoinTexts(texts) ==
    IF texts = <<>> THEN <<>>
    ELSE IF Len(texts) = 1 THEN texts[1]
    ELSE texts[1] \o <<",">> \o JoinTexts(Tail(texts))

\* A TypeError was thrown: the handler returns no response, a conversion no
\* text.
Threw == [threw |-> TRUE]

\* String(v) returns: v is not an object with a property toString of its
\* own (which, parsed from JSON, is no function, so that neither it nor
\* Object.prototype.valueOf yields a primitive), nor an array holding one.
RECURSIVE CanText(_)
CanText(v) ==
    IF IsObj(v) THEN "toString" \notin DOMAIN v.obj
    ELSE IF IsArr(v)
         THEN \A i \in 1..Len(v.arr) :
                IsNull(v.arr[i]) \/ IsUndef(v.arr[i]) \/ CanText(v.arr[i])
    ELSE TRUE

\* String(v), for a property key or a template literal: an array is its
\* elements joined by commas, null and undefined among them as nothing.
RECURSIVE ToText(_)
ToText(v) ==
    IF ~CanText(v) THEN Threw
    ELSE IF IsStr(v) THEN v.str
    ELSE IF IsNull(v) THEN <<"null">>
    ELSE IF IsUndef(v) THEN <<"undefined">>
    ELSE IF IsNum(v) THEN Digits(v.num)
    ELSE IF IsBool(v) THEN (IF v.bool THEN <<"true">> ELSE <<"false">>)
    ELSE IF IsArr(v)
         THEN JoinTexts([i \in 1..Len(v.arr) |->
                            IF IsNull(v.arr[i]) \/ IsUndef(v.arr[i]) THEN <<>>
                            ELSE ToText(v.arr[i])])
    ELSE <<"[object Object]">>

\* PROVIDER_ENDPOINTS[provider]
Endpoint(provider) ==
    IF ~CanText(provider) THEN Threw
    ELSE IF ToText(provider) = <<"openai">> THEN PROVIDER_ENDPOINTS.openai
    ELSE IF ToText(provider) = <<"openrouter">> THEN PROVIDER_ENDPOINTS.openrouter
    ELSE IF Len(ToText(provider)) = 1 /\ ToText(provider)[1] \in InheritedNames
         THEN Inherited(ToText(provider)[1])
    ELSE Undef

\* NextResponse.json(body, { status })
Response(status, body) == [status |-> status, body |-> Json(body)]

IsResponse(r) == DOMAIN r = {"status", "body"}

ErrorResponse(status, message) == Response(status, [error |-> message])

\* The tokens of a language tag after an opening fence: [a-zA-Z0-9_-]
LangTokens == {"a", "A", "_"}

\* Three backticks.
Fence == "FENCE"

\* The tokens (?:Final Prompt|Upgraded Prompt) matches, case ignored.
KeywordTokens == {"Final Prompt", "upgraded prompt"}

\* The least position from `from` on whose token is in S, 0 when there is none.
IndexIn(s, from, S) ==
    IF \E i \in from..Len(s) : s[i] \in S
    THEN CHOOSE i \in from..Len(s) : s[i] \in S /\ \A j \in from..(i - 1) : s[j] \notin S
    ELSE 0

\* The position after the run of tokens of S that starts at `from`.
SkipRun(s, from, S) ==
    IF \E i \in from..Len(s) : s[i] \notin S
    THEN CHOOSE i \in from..Len(s) : s[i] \notin S /\ \A j \in from..(i - 1) : s[j] \in S
    ELSE Len(s) + 1

\* An opening fence at position i: a fence, a language tag, a newline, and a
\* closing fence somewhere after.
OpensBlock(s, i) ==
    /\ s[i] = Fence
    /\ SkipRun(s, i + 1, LangTokens) <= Len(s)
    /\ s[SkipRun(s, i + 1, LangTokens)] = "\n"
    /\ IndexIn(s, SkipRun(s, i + 1, LangTokens) + 1, {Fence}) # 0

\* Group 1 of the code block match: what stands between the newline that
\* ends the opening fence line and the next fence; undefined when there is
\* no match.
CodeBlockMatch(s) ==
    IF \E i \in 1..Len(s) : OpensBlock(s, i)
    THEN LET i == CHOOSE i \in 1..Len(s) :
                    OpensBlock(s, i) /\ \A j \in 1..(i - 1) : ~OpensBlock(s, j)
             start == SkipRun(s, i + 1, LangTokens) + 1
         IN  Str(SubSeq(s, start, IndexIn(s, start, {Fence}) - 1))
    ELSE Undef

\* Group 1 of the final prompt match: what follows the first keyword and the
\* run of colons and whitespace after it.
FinalPromptMatch(s) ==
    IF IndexIn(s, 1, KeywordTokens) # 0
    THEN Str(SubSeq(s, SkipRun(s, IndexIn(s, 1, KeywordTokens) + 1, SpaceChars \cup {":"}),
                    Len(s)))
    ELSE Undef

\* extractRefinedPrompt(content), for a content that is a string or nullish.
extractRefinedPrompt(content) ==
    IF ~Truthy(content) THEN Undef
    ELSE IF Truthy(CodeBlockMatch(content.str)) THEN Str(Trim(CodeBlockMatch(content.str).str))
    ELSE IF Truthy(FinalPromptMatch(content.str))
         THEN Str(Trim(FinalPromptMatch(content.str).str))
    ELSE Undef

\* A destructuring default: the default for undefined, the value otherwise.
Default(v, d) == IF IsUndef(v) THEN d ELSE v

\* The texts of the route's responses.
InvalidJsonMessage == Str(<<"Invalid JSON payload.">>)

PromptRequiredMessage == Str(<<"Prompt is required for refinement.">>)

ApiKeyRequiredMessage == Str(<<"API key is required to call the selected provider.">>)

UnsupportedProviderMessage(provider) ==
    IF ~CanText(provider) THEN Threw
    ELSE Str(<<"Unsupported provider: ">> \o ToText(provider))

NonOkMessage == Str(<<"Provider returned a non-200 response. Check credentials and quota.">>)

FailedToContactMessage ==
    Str(<<"Failed to contact the provider. Verify network and credentials.">>)

\* prompt?.trim is called: prompt is nullish or has a trim method.
CanTrim(prompt) == IsUndef(prompt) \/ IsNull(prompt) \/ IsStr(prompt)

\* prompt?.trim()
Trimmed(prompt) == IF IsStr(prompt) THEN Str(Trim(prompt.str)) ELSE Undef

\* The fetch the route is about to make.
ProviderCall(endpoint, provider, apiKey) ==
    [endpoint |-> endpoint, provider |-> provider, apiKey |-> apiKey]

IsProviderCall(r) == DOMAIN r = {"endpoint", "provider", "apiKey"}

\* const endpoint = PROVIDER_ENDPOINTS[provider]; if (!endpoint) ...
\* The coercion of the key throws outside any try block.
CheckProvider(provider, apiKey) ==
    IF ~CanText(provider) THEN Threw
    ELSE IF ~Truthy(Endpoint(provider))
    THEN ErrorResponse(400, UnsupportedProviderMessage(provider))
    ELSE ProviderCall(Endpoint(provider), provider, apiKey)

DefaultInstructions ==
    Str(<<"Rewrite this prompt to be clearer, safer, and more actionable.">>)

\* From the messages to the call of fetch: `${instructions}` throws outside
\* the try block, `Bearer ${apiKey}` inside it, where the catch clause
\* answers (model and temperature only go through JSON.stringify).
BuildRequest(call, instructions) ==
    IF ~CanText(instructions) THEN Threw
    ELSE IF ~CanText(call.apiKey) THEN ErrorResponse(500, FailedToContactMessage)
    ELSE call

\* POST from the destructuring of the payload up to the fetch: a response, a
\* throw, or the call to make.
CheckPayload(payload) ==
    IF IsNull(payload) THEN Threw
    ELSE IF ~CanTrim(Prop(payload, "prompt")) THEN Threw
    ELSE IF ~Truthy(Trimmed(Prop(payload, "prompt")))
    THEN ErrorResponse(400, PromptRequiredMessage)
    ELSE IF ~Truthy(Prop(payload, "apiKey"))
    THEN ErrorResponse(400, ApiKeyRequiredMessage)
    ELSE LET call == CheckProvider(Default(Prop(payload, "provider"), Str(<<"openai">>)),
                                   Prop(payload, "apiKey"))
         IN  IF IsProviderCall(call)
             THEN BuildRequest(call,
                    Default(Prop(payload, "instructions"), DefaultInstructions))
             ELSE call

\* POST up to the fetch, for a request with the given body.
BeforeFetch(body) ==
    IF ~IsJson(body) THEN ErrorResponse(400, InvalidJsonMessage)
    ELSE CheckPayload(body.json)

\* fetch(endpoint, ...) reaches the network: the endpoint is a URL.
IsUrl(endpoint) == IsStr(endpoint)

\* fetch accepts the Authorization header: its value, white space at both
\* ends apart, holds no line break.
ValidAuthorization(apiKey) ==
    LET value == Trim(<<"Bearer", " ">> \o ToText(apiKey))
    IN  \A i \in 1..Len(value) : value[i] # "\n"

\* The provider's reply: the fetch rejects, or resolves with a response.
Rejected == [rejected |-> TRUE]

IsRejected(reply) == DOMAIN reply = {"rejected"}

IsOk(status) == status \in 200..299

\* The statuses of a response that cannot carry a body: NextResponse.json
\* throws when given one, as it does for a status outside 200..599.
NullBodyStatus == {101, 103, 204, 205, 304}

\* data?.choices?.[0]?.message?.content
ContentOf(data) == Prop(Prop(First(Prop(data, "choices")), "message"), "content")

\* The non-OK branch: a throw inside the try block ends in the catch clause.
NonOkResponse(reply) ==
    LET error == IF IsJson(reply.body) THEN reply.body.json ELSE Obj(<<>>)
    IN  IF reply.status \notin 200..599 \/ reply.status \in NullBodyStatus
        THEN ErrorResponse(500, FailedToContactMessage)
        ELSE ErrorResponse(reply.status,
                Or(Or(Prop(Prop(error, "error"), "message"), Prop(error, "message")),
                   NonOkMessage))

\* The OK branch: a throw inside the try block ends in the catch clause.
OkResponse(reply) ==
    IF ~IsJson(reply.body) THEN ErrorResponse(500, FailedToContactMessage)
    ELSE IF Truthy(ContentOf(reply.body.json)) /\ ~IsStr(ContentOf(reply.body.json))
    THEN ErrorResponse(500, FailedToContactMessage)
    ELSE Response(200, [analysis |-> ContentOf(reply.body.json),
                        refinedPrompt |-> extractRefinedPrompt(ContentOf(reply.body.json))])

\* POST from the fetch on: the try block and its catch clause.
AfterFetch(call, reply) ==
    IF ~IsUrl(call.endpoint) \/ ~ValidAuthorization(call.apiKey) \/ IsRejected(reply)
    THEN ErrorResponse(500, FailedToContactMessage)
    ELSE IF ~IsOk(reply.status) THEN NonOkResponse(reply)
    ELSE OkResponse(reply)

\* The route handler between requests.
Idle == [pc |-> "idle"]

(***************************************************************************)
(* The component's state                                                   *)
(***************************************************************************)
VARIABLES
    state,          \* useReducer: the current PromptState snapshot
    prev,           \* the snapshot object the reducer was last given, as it is now
    heap,           \* the arrays referenced by snapshots and templates
    templates,      \* promptTemplates: template id -> sections
    activeTemplate, \* useState: the id of the template last loaded
    last,           \* the handler that ran last, with what it was given
    edited,         \* ids of the variables whose name box has been typed in
    steps,          \* handlers run so far
    memo,           \* useMemo: assistant and compiledPrompt as last computed
    clipboardStatus, \* useState: "idle" or "copied"
    copying,        \* clipboard.writeText calls that have not settled
    timers,         \* setTimeout callbacks that have not run
    refineConfig,   \* useState: the provider and the API key
    isRefining,     \* useState
    refineOutput,   \* useState: the RefineResponse shown, or undefined
    refineError,    \* useState: the message shown, or undefined
    inflight,       \* fetch("/api/refine") calls that have not settled
    route           \* the route handler: the request it serves and how far it is

\* What the editors, template loading and reset leave alone.
sideVars ==
    <<clipboardStatus, copying, timers, refineConfig, isRefining, refineOutput,
      refineError, inflight, route>>

vars == <<state, prev, heap, templates, activeTemplate, last, edited, steps, memo, sideVars>>

Event(type, key, tpl) == [type |-> type, key |-> key, tpl |-> tpl]

InitWith(lib) ==
    /\ templates = [t \in TemplateIds |-> SectionsOf(lib, t)]
    /\ heap = createDefaultPromptState(LibraryHeap(lib), FirstCells).heap
    /\ state = createDefaultPromptState(LibraryHeap(lib), FirstCells).state
    /\ prev = state
    /\ activeTemplate = NoTemplate
    /\ last = Event("init", "", NoTemplate)
    /\ edited = {}
    /\ steps = 0
    /\ memo = Derived(heap, state)
    /\ clipboardStatus = "idle"
    /\ copying = 0
    /\ timers = 0
    /\ refineConfig = [provider |-> Str(<<"openai">>), apiKey |-> Str(<<>>)]
    /\ isRefining = FALSE
    /\ refineOutput = Undef
    /\ refineError = Undef
    /\ inflight = <<>>
    /\ route = Idle

Init == InitWith(promptTemplates)

\* dispatch(a) with the heap as h: the reducer's snapshot becomes the state.
\* The snapshot it replaces stays allocated until the next dispatch.
DispatchOn(h, a) ==
    /\ \A k \in ReadsList(a) : IsRef(state[k])
    /\ LET r == reducer(h, state, a)
       IN  state' = r.state /\ prev' = r.input /\ heap' = Collect(r.heap, r.input, r.state)

\* dispatch(a) in the component, and the render that follows: assistant and
\* compiledPrompt are recomputed unless the reducer returned the state
\* object it was given.
DispatchAndRender(h, a) ==
    /\ DispatchOn(h, a)
    /\ memo' = useMemo(memo, ReturnsStateItself(h, state, a), Derived(heap', state'))

Dispatch(a) == DispatchAndRender(heap, a)

Count == steps < MaxSteps /\ steps' = steps + 1

(***************************************************************************)
(* The editors                                                             *)
(***************************************************************************)
\* Inputs typed by the user.
ChipKeyInputs == {"toneTraits", "keywords"}

TextKeyInputs == {"projectTitle", "coreObjective"}

TextInputs == {Str(<<>>), Str(<<"a">>)}

DraftInputs == {<<" ">>, <<"a">>, <<" ", "a", " ">>, <<"a", " ", "A">>}

NameInputs == {<<>>, <<"a">>, <<"a", " ", " ", "A">>, <<" ", "a", "_">>}

\* chipSuggestions (@/lib/prompt-utils)
chipSuggestions == [k \in ChipKeys |-> {Str(<<"A">>)}]

UnknownTemplate == "tplX"

\* A text section's onChange.
EditText(key, value) ==
    /\ Count
    /\ UNCHANGED sideVars
    /\ Dispatch([type |-> "update", key |-> key, value |-> value])
    /\ last' = Event("update", key, NoTemplate)
    /\ UNCHANGED <<templates, activeTemplate, edited>>

\* ChipInput.handleAdd with `draft` in the box: nothing for a blank draft.
ChipHandleAdd(key, draft) ==
    /\ Count
    /\ UNCHANGED sideVars
    /\ IF Trim(draft) = <<>>
       THEN /\ UNCHANGED <<state, prev, heap, memo>>
            /\ last' = Event("blankDraft", key, NoTemplate)
       ELSE /\ Dispatch([type |-> "addChip", key |-> key, value |-> Str(Trim(draft))])
            /\ last' = Event("addChip", key, NoTemplate)
    /\ UNCHANGED <<templates, activeTemplate, edited>>

\* A suggestion chip's onClick.
ChipSuggestion(key, value) ==
    /\ Count
    /\ UNCHANGED sideVars
    /\ Dispatch([type |-> "addChip", key |-> key, value |-> value])
    /\ last' = Event("addChip", key, NoTemplate)
    /\ UNCHANGED <<templates, activeTemplate, edited>>

\* The remove button of a rendered chip.
ChipRemove(key, i) ==
    /\ Count
    /\ UNCHANGED sideVars
    /\ i \in 1..Len(Items(heap, state, key))
    /\ Dispatch([type |-> "removeChip", key |-> key, value |-> Items(heap, state, key)[i]])
    /\ last' = Event("removeChip", key, NoTemplate)
    /\ UNCHANGED <<templates, activeTemplate, edited>>

\* WorkflowEditor: the inputs of the i-th rendered stage.
WorkflowEdit(i, field, value) ==
    /\ Count
    /\ UNCHANGED sideVars
    /\ i \in 1..Len(Items(heap, state, "workflow"))
    /\ Dispatch([type |-> "updateWorkflow", id |-> Items(heap, state, "workflow")[i].id,
                 field |-> field, value |-> value])
    /\ last' = Event("updateWorkflow", "workflow", NoTemplate)
    /\ UNCHANGED <<templates, activeTemplate, edited>>

\* The remove button of the i-th stage, rendered when stages.length > 1.
WorkflowRemove(i) ==
    /\ Count
    /\ UNCHANGED sideVars
    /\ i \in 1..Len(Items(heap, state, "workflow"))
    /\ Len(Items(heap, state, "workflow")) > 1
    /\ Dispatch([type |-> "removeWorkflow", id |-> Items(heap, state, "workflow")[i].id])
    /\ last' = Event("removeWorkflow", "workflow", NoTemplate)
    /\ UNCHANGED <<templates, activeTemplate, edited>>

WorkflowAdd ==
    /\ Count
    /\ UNCHANGED sideVars
    /\ Dispatch([type |-> "addWorkflow"])
    /\ last' = Event("addWorkflow", "workflow", NoTemplate)
    /\ UNCHANGED <<templates, activeTemplate, edited>>

\* VariablesEditor: the name box of the i-th rendered variable.
VariableEditName(i, text) ==
    /\ Count
    /\ UNCHANGED sideVars
    /\ i \in 1..Len(Items(heap, state, "variables"))
    /\ Dispatch([type |-> "updateVariable", id |-> Items(heap, state, "variables")[i].id,
                 field |-> "name", value |-> Str(NormalizeName(text))])
    /\ last' = Event("editName", "variables", NoTemplate)
    /\ edited' = edited \cup {Items(heap, state, "variables")[i].id}
    /\ UNCHANGED <<templates, activeTemplate>>

\* The description and example boxes of the i-th rendered variable.
VariableEdit(i, field, value) ==
    /\ Count
    /\ UNCHANGED sideVars
    /\ i \in 1..Len(Items(heap, state, "variables"))
    /\ Dispatch([type |-> "updateVariable", id |-> Items(heap, state, "variables")[i].id,
                 field |-> field, value |-> value])
    /\ last' = Event("updateVariable", "variables", NoTemplate)
    /\ UNCHANGED <<templates, activeTemplate, edited>>

\* The remove button of the i-th variable, rendered when variables.length > 1.
VariableRemove(i) ==
    /\ Count
    /\ UNCHANGED sideVars
    /\ i \in 1..Len(Items(heap, state, "variables"))
    /\ Len(Items(heap, state, "variables")) > 1
    /\ Dispatch([type |-> "removeVariable", id |-> Items(heap, state, "variables")[i].id])
    /\ last' = Event("removeVariable", "variables", NoTemplate)
    /\ edited' = edited \ {Items(heap, state, "variables")[i].id}
    /\ UNCHANGED <<templates, activeTemplate>>

VariableAdd ==
    /\ Count
    /\ UNCHANGED sideVars
    /\ Dispatch([type |-> "addVariable"])
    /\ last' = Event("addVariable", "variables", NoTemplate)
    /\ UNCHANGED <<templates, activeTemplate, edited>>

(***************************************************************************)
(* Templates and reset                                                     *)
(***************************************************************************)
\* The template merged over the current snapshot s instead of the defaults.
MergedPayloadOverState(h, s, sections) ==
    [heap |-> createDefaultPromptState(h, FreshCells(s)).heap,
     state |-> Merge(s, sections)]

\* The snapshot handleLoadTemplate builds for a known template: the heap
\* afterwards and the merged snapshot.
MergedPayload(h, s, sections) ==
    [heap |-> createDefaultPromptState(h, FreshCells(s)).heap,
     state |-> Merge(createDefaultPromptState(h, FreshCells(s)).state, sections)]

handleLoadTemplate(id) ==
    /\ Count
    /\ UNCHANGED sideVars
    /\ last' = Event("loadTemplate", "", id)
    /\ IF id \notin DOMAIN templates
       THEN UNCHANGED <<state, prev, heap, memo, activeTemplate, edited>>
       ELSE /\ DispatchAndRender(MergedPayload(heap, state, templates[id]).heap,
                    [type |-> "hydrate",
                     payload |-> MergedPayload(heap, state, templates[id]).state])
            /\ activeTemplate' = id
            /\ edited' = {}
    /\ UNCHANGED templates

\* The "Reset workspace" button.
ResetWorkspace ==
    /\ Count
    /\ UNCHANGED sideVars
    /\ DispatchAndRender(createDefaultPromptState(heap, FreshCells(state)).heap,
            [type |-> "hydrate",
             payload |-> createDefaultPromptState(heap, FreshCells(state)).state])
    /\ last' = Event("reset", "", NoTemplate)
    /\ edited' = {}
    /\ UNCHANGED <<templates, activeTemplate>>

\* The positions of the chips or rows rendered for a list-typed field.
Rendered(k) == 1..Len(Items(heap, state, k))

Next ==
    \/ \E key \in TextKeyInputs, value \in TextInputs : EditText(key, value)
    \/ \E key \in ChipKeyInputs, draft \in DraftInputs : ChipHandleAdd(key, draft)
    \/ \E key \in ChipKeyInputs : \E value \in chipSuggestions[key] : ChipSuggestion(key, value)
    \/ \E key \in ChipKeyInputs : \E i \in Rendered(key) : ChipRemove(key, i)
    \/ \E i \in Rendered("workflow"), field \in WorkflowFields \ {"id"}, value \in TextInputs :
            WorkflowEdit(i, field, value)
    \/ \E i \in Rendered("workflow") : WorkflowRemove(i)
    \/ WorkflowAdd
    \/ \E i \in Rendered("variables"), text \in NameInputs : VariableEditName(i, text)
    \/ \E i \in Rendered("variables"), field \in {"description", "example"}, value \in TextInputs :
            VariableEdit(i, field, value)
    \/ \E i \in Rendered("variables") : VariableRemove(i)
    \/ VariableAdd
    \/ \E id \in TemplateIds \cup {UnknownTemplate} : handleLoadTemplate(id)
    \/ ResetWorkspace

Spec == Init /\ [][Next]_vars

(***************************************************************************)
(* The reducer under any action of type PromptAction                       *)
(***************************************************************************)
\* Inputs: the values of the action's fields.
UpdateKeyInputs == {"coreObjective", "variables"}

ValueInputs == {Str(<<"a">>)}

ChipInputs == {Str(<<"a">>), Str(<<"A">>)}

ChipListInputs == {<<Str(<<"a">>), Str(<<"a">>)>>, <<Str(<<"A">>), Str(<<"a">>)>>}

\* An id no row has.
AbsentId == Str(<<"?">>)

\* The ids an action may name: those of the rows, and one of no row.
RowIdInputs(rows) == ({RowId(rows[i]) : i \in 1..Len(rows)} \ {Undef}) \cup {AbsentId}

\* The values an update of a row may carry: text, or the first row's id.
RowValueInputs(rows) ==
    ValueInputs \cup ({RowId(rows[i]) : i \in 1..Len(rows) \cap {1}} \ {Undef})

\* The rows of a list-typed field, none when the field holds no array.
RowsOf(k) == IF IsRef(state[k]) THEN Items(heap, state, k) ELSE <<>>

\* reducer(state, a) called on its own: no component renders.
Reduce(a, key) ==
    /\ Count
    /\ UNCHANGED <<memo, sideVars>>
    /\ DispatchOn(heap, a)
    /\ last' = Event(a.type, key, NoTemplate)
    /\ UNCHANGED <<templates, activeTemplate, edited>>

RUpdate(key, value) == Reduce([type |-> "update", key |-> key, value |-> value], key)

RAddChip(key, value) == Reduce([type |-> "addChip", key |-> key, value |-> value], key)

RRemoveChip(key, value) ==
    Reduce([type |-> "removeChip", key |-> key, value |-> value], key)

RSetChips(key, value) == Reduce([type |-> "setChips", key |-> key, value |-> value], key)

RAddVariable == Reduce([type |-> "addVariable"], "variables")

RRemoveVariable(id) == Reduce([type |-> "removeVariable", id |-> id], "variables")

RUpdateVariable(id, field, value) ==
    Reduce([type |-> "updateVariable", id |-> id, field |-> field, value |-> value],
           "variables")

RAddWorkflow == Reduce([type |-> "addWorkflow"], "workflow")

RRemoveWorkflow(id) == Reduce([type |-> "removeWorkflow", id |-> id], "workflow")

RUpdateWorkflow(id, field, value) ==
    Reduce([type |-> "updateWorkflow", id |-> id, field |-> field, value |-> value],
           "workflow")

\* hydrate with the payload of "Reset workspace".
RHydrateDefault ==
    /\ Count
    /\ UNCHANGED <<memo, sideVars>>
    /\ DispatchOn(createDefaultPromptState(heap, FreshCells(state)).heap,
            [type |-> "hydrate",
             payload |-> createDefaultPromptState(heap, FreshCells(state)).state])
    /\ last' = Event("hydrate", "", NoTemplate)
    /\ UNCHANGED <<templates, activeTemplate, edited>>

\* hydrate with the payload handleLoadTemplate builds from template t.
RHydrateTemplate(t) ==
    /\ Count
    /\ UNCHANGED <<memo, sideVars>>
    /\ DispatchOn(MergedPayload(heap, state, templates[t]).heap,
            [type |-> "hydrate", payload |-> MergedPayload(heap, state, templates[t]).state])
    /\ last' = Event("hydrate", "", t)
    /\ UNCHANGED <<templates, activeTemplate, edited>>

NextReducer ==
    \/ \E key \in UpdateKeyInputs, value \in ValueInputs : RUpdate(key, value)
    \/ \E key \in ChipKeyInputs, value \in ChipInputs : RAddChip(key, value)
    \/ \E key \in ChipKeyInputs, value \in ChipInputs : RRemoveChip(key, value)
    \/ \E key \in ChipKeyInputs, value \in ChipListInputs : RSetChips(key, value)
    \/ RAddVariable
    \/ \E id \in RowIdInputs(RowsOf("variables")) : RRemoveVariable(id)
    \/ \E id \in RowIdInputs(RowsOf("variables")), field \in VariableFields :
            \E value \in RowValueInputs(RowsOf("variables")) :
                RUpdateVariable(id, field, value)
    \/ RAddWorkflow
    \/ \E id \in RowIdInputs(RowsOf("workflow")) : RRemoveWorkflow(id)
    \/ \E id \in RowIdInputs(RowsOf("workflow")), field \in WorkflowFields :
            \E value \in RowValueInputs(RowsOf("workflow")) :
                RUpdateWorkflow(id, field, value)
    \/ RHydrateDefault
    \/ \E t \in TemplateIds : RHydrateTemplate(t)

SpecReducer == Init /\ [][NextReducer]_vars

(***************************************************************************)
(* Template loading over any library                                       *)
(***************************************************************************)
\* Inputs: the fields a template's sections may carry, and with what.
MergeKeyInputs == {"coreObjective", "toneTraits", "variables"}

SectionValueInputs(k) ==
    IF k \in TextKeys THEN {Str(<<"a">>), Undef}
    ELSE IF k \in ChipKeys THEN {[items |-> <<Str(<<"a">>)>>], Undef}
    ELSE {[items |-> <<[id |-> Str(<<"v", "1">>), name |-> Str(<<"A">>),
                       description |-> Str(<<>>), example |-> Undef]>>],
          [items |-> <<>>], Undef}

SectionInputs ==
    UNION {{f \in [D -> UNION {SectionValueInputs(k) : k \in MergeKeyInputs}] :
                \A k \in D : f[k] \in SectionValueInputs(k)} : D \in SUBSET MergeKeyInputs}

LibraryInputs == {[promptTemplates EXCEPT !["tplA"] = x] : x \in SectionInputs}

InitMerge == \E lib \in LibraryInputs : InitWith(lib)

NextMerge ==
    \/ \E key \in TextKeyInputs, value \in TextInputs : EditText(key, value)
    \/ \E id \in TemplateIds \cup {UnknownTemplate} : handleLoadTemplate(id)
    \/ ResetWorkspace

SpecMerge == InitMerge /\ [][NextMerge]_vars

(***************************************************************************)
(* Copying and refining the compiled prompt                                *)
(***************************************************************************)
\* What the editors hold.
studioVars == <<state, prev, heap, templates, activeTemplate, edited, memo>>

copyVars == <<clipboardStatus, copying, timers>>

refineVars == <<refineConfig, isRefining, refineOutput, refineError, inflight>>

\* Inputs typed or chosen in the refinement card.
ApiKeyInputs == {Str(<<>>), Str(<<"k">>)}

ProviderOptions == {Str(<<"openai">>), Str(<<"openrouter">>)}

\* The API key box's onChange.
SetApiKey(value) ==
    /\ Count
    /\ refineConfig' = [refineConfig EXCEPT !.apiKey = value]
    /\ last' = Event("setApiKey", "", NoTemplate)
    /\ UNCHANGED <<studioVars, copyVars, isRefining, refineOutput, refineError, inflight, route>>

\* The provider select's onChange.
SetProvider(value) ==
    /\ Count
    /\ refineConfig' = [refineConfig EXCEPT !.provider = value]
    /\ last' = Event("setProvider", "", NoTemplate)
    /\ UNCHANGED <<studioVars, copyVars, isRefining, refineOutput, refineError, inflight, route>>

\* handleCopy up to its await: clipboard.writeText(compiledPrompt) is called.
handleCopy ==
    /\ Count
    /\ copying' = copying + 1
    /\ last' = Event("copy", "", NoTemplate)
    /\ UNCHANGED <<studioVars, clipboardStatus, timers, refineVars, route>>

\* writeText resolves: "copied" is shown and a timer is set.
CopyResolves ==
    /\ copying > 0
    /\ copying' = copying - 1
    /\ clipboardStatus' = "copied"
    /\ timers' = timers + 1
    /\ last' = Event("copyResolved", "", NoTemplate)
    /\ UNCHANGED <<studioVars, steps, refineVars, route>>

\* writeText rejects: the catch clause logs to the console.
CopyRejects ==
    /\ copying > 0
    /\ copying' = copying - 1
    /\ last' = Event("copyRejected", "", NoTemplate)
    /\ UNCHANGED <<studioVars, steps, clipboardStatus, timers, refineVars, route>>

\* The timer set by a copy runs out.
CopyTimerFires ==
    /\ timers > 0
    /\ timers' = timers - 1
    /\ clipboardStatus' = "idle"
    /\ last' = Event("copyTimer", "", NoTemplate)
    /\ UNCHANGED <<studioVars, steps, copying, refineVars, route>>

\* The texts handleRefine shows.
UnableToRefineMessage == Str(<<"Unable to refine prompt. Check API key and provider.">>)

NetworkErrorMessage == Str(<<"Network error while refining prompt.">>)

\* The body handleRefine sends (model, temperature and instructions, which
\* the route passes on to the provider, are left out).
RefineRequestBody ==
    [json |-> Json([prompt |-> memo.compiledPrompt,
                    provider |-> refineConfig.provider,
                    apiKey |-> refineConfig.apiKey])]

\* A Refine button without the disabled attribute.
RefineEnabledAlways == TRUE

\* The Refine button is enabled.
RefineEnabled == ~isRefining /\ Truthy(refineConfig.apiKey)

\* handleRefine up to its await, behind the button.
handleRefine ==
    /\ Count
    /\ RefineEnabled
    /\ isRefining' = TRUE
    /\ refineError' = Undef
    /\ refineOutput' = Undef
    /\ inflight' = Append(inflight, RefineRequestBody)
    /\ last' = Event("refine", "", NoTemplate)
    /\ UNCHANGED <<studioVars, copyVars, refineConfig, route>>

\* What the browser's fetch settles with: a rejection, or an HTTP response.
NetworkFailure == [rejected |-> TRUE]

Http(status, body) == [status |-> status, body |-> body]

\* The HTTP response for what POST returned; the framework answers a throw
\* with a 500 that carries no JSON.
HttpOf(result) ==
    IF result = Threw THEN Http(500, NotJson)
    ELSE Http(result.status, [json |-> result.body])

\* The catch clause without setRefineError.
CaughtSilently == Undef

\* The catch clause of handleRefine.
Caught == NetworkErrorMessage

\* The refineError a settled fetch leaves, undefined when none is set.
ErrorShown(outcome) ==
    IF IsRejected(outcome) \/ ~IsJson(outcome.body) THEN Caught
    ELSE IF IsOk(outcome.status) THEN Undef
    ELSE IF IsNull(outcome.body.json) THEN Caught
    ELSE IF IsUndef(Prop(outcome.body.json, "error")) \/ IsNull(Prop(outcome.body.json, "error"))
    THEN UnableToRefineMessage
    ELSE Prop(outcome.body.json, "error")

\* The fetch ended in setRefineOutput(data).
Succeeded(outcome) == ~IsRejected(outcome) /\ IsJson(outcome.body) /\ IsOk(outcome.status)

\* Inputs: what the provider's message may hold as content.
ContentInputs ==
    {Str(<<"a">>),
     Str(<<Fence, "a", "\n", "a", " ", Fence>>),
     Str(<<"Final Prompt", ":", " ", "a">>),
     Str(<<Fence, "\n", Fence, "upgraded prompt", "\n", "A">>),
     Str(<<Fence, "\n", " ", Fence>>),
     Str(<<>>), Null, Num(5)}

\* A chat completion whose first choice carries the content.
Completion(content) ==
    Obj([choices |-> Arr(<<Obj([message |-> Obj([content |-> content])])>>)])

\* Inputs: the provider's replies.
ProviderReplies ==
    {Rejected}
    \cup {Http(200, [json |-> Completion(c)]) : c \in ContentInputs}
    \cup {Http(200, [json |-> Obj([choices |-> Arr(<<>>)])]),
          Http(200, [json |-> Null]),
          Http(200, NotJson),
          Http(401, [json |-> Obj([error |-> Obj([message |-> Str(<<"x">>)])])]),
          Http(401, [json |-> Obj([error |-> Obj([message |-> Num(42)])])]),
          Http(429, [json |-> Obj([message |-> Str(<<"y">>)])]),
          Http(503, [json |-> Obj(<<>>)]),
          Http(404, [json |-> Null]),
          Http(304, NotJson),
          Http(600, [json |-> Obj([error |-> Obj([message |-> Str(<<"x">>)])])]),
          Http(200, [json |-> Obj([choices |->
                Obj("0" :> Obj([message |-> Obj([content |-> Str(<<"a">>)])]))])]),
          Http(200, [json |-> Obj([choices |-> Str(<<"a", "b">>)])]),
          Http(500, NotJson)}

\* What POST answers a request with, over the provider's replies.
PostResults(body) ==
    IF IsProviderCall(BeforeFetch(body))
    THEN {AfterFetch(BeforeFetch(body), reply) : reply \in ProviderReplies}
    ELSE {BeforeFetch(body)}

\* What the browser's fetch of /api/refine may settle with: the route's
\* answer, an answer from in between (a gateway), or a failure.
FetchOutcomes(body) ==
    {HttpOf(r) : r \in PostResults(body)}
    \cup {Http(504, NotJson), Http(502, [json |-> Obj(<<>>)]), NetworkFailure}

\* handleRefine with setIsRefining(false) as the last statement of the try
\* block instead of a finally clause.
RefineSettlesNoFinally(i, outcome) ==
    /\ i \in 1..Len(inflight)
    /\ inflight' = [j \in 1..(Len(inflight) - 1) |-> inflight[IF j < i THEN j ELSE j + 1]]
    /\ refineOutput' = (IF Succeeded(outcome) THEN outcome.body.json ELSE refineOutput)
    /\ refineError' = (IF Succeeded(outcome) THEN refineError ELSE ErrorShown(outcome))
    /\ isRefining' = (ErrorShown(outcome) = Caught)
    /\ last' = Event(IF Succeeded(outcome) THEN "refineSucceeded" ELSE "refineFailed",
                     "", NoTemplate)
    /\ UNCHANGED <<studioVars, steps, copyVars, refineConfig, route>>

\* The i-th fetch settles: handleRefine from its await to the end of finally.
RefineSettles(i, outcome) ==
    /\ i \in 1..Len(inflight)
    /\ inflight' = [j \in 1..(Len(inflight) - 1) |-> inflight[IF j < i THEN j ELSE j + 1]]
    /\ refineOutput' = (IF Succeeded(outcome) THEN outcome.body.json ELSE refineOutput)
    /\ refineError' = (IF Succeeded(outcome) THEN refineError ELSE ErrorShown(outcome))
    /\ isRefining' = FALSE
    /\ last' = Event(IF Succeeded(outcome) THEN "refineSucceeded" ELSE "refineFailed",
                     "", NoTemplate)
    /\ UNCHANGED <<studioVars, steps, copyVars, refineConfig, route>>

SomeRefineSettles ==
    \E i \in 1..Len(inflight) : \E outcome \in FetchOutcomes(inflight[i]) :
        RefineSettles(i, outcome)

NextRefine ==
    \/ \E key \in TextKeyInputs, value \in TextInputs : EditText(key, value)
    \/ \E id \in TemplateIds : handleLoadTemplate(id)
    \/ ResetWorkspace
    \/ \E value \in ApiKeyInputs : SetApiKey(value)
    \/ \E value \in ProviderOptions : SetProvider(value)
    \/ handleCopy
    \/ CopyResolves
    \/ CopyRejects
    \/ CopyTimerFires
    \/ handleRefine
    \/ SomeRefineSettles

SpecRefine == Init /\ [][NextRefine]_vars

\* A fetch that gets no response fails in the end.
RefineFetchFails == \E i \in 1..Len(inflight) : RefineSettles(i, NetworkFailure)

\* A fetch that was started settles: with a response or, at the latest, with
\* a failure.
SpecRefineFair == SpecRefine /\ WF_vars(RefineFetchFails)

(***************************************************************************)
(* The route under any request                                             *)
(***************************************************************************)
\* Inputs: the fields of a request's payload.
PromptInputs ==
    {Undef, Null, Str(<<>>), Str(<<" ", "\n">>), Str(<<"a">>), Num(5)}

KeyInputs ==
    {Undef, Str(<<>>), Str(<<"k">>), Str(<<"k", "\n", "k">>), Obj("toString" :> Num(1))}

InstructionInputs == {Undef, Obj("toString" :> Num(1))}

ProviderInputs ==
    {Undef, Str(<<"openai">>), Str(<<"openrouter">>), Str(<<"azure">>),
     Str(<<"constructor">>), Str(<<"__proto__">>), Str(<<>>), Null, Num(5),
     Arr(<<Str(<<"openai">>)>>), Arr(<<>>), Bool(TRUE), Obj("toString" :> Num(1))}

\* Inputs: request bodies.
RequestBodies ==
    {NotJson, [json |-> Null], [json |-> Num(5)]}
    \cup {[json |-> Json([prompt |-> p, apiKey |-> k, provider |-> v, instructions |-> n])] :
            p \in PromptInputs, k \in KeyInputs, v \in ProviderInputs,
            n \in InstructionInputs}

\* What the route holds while it serves a request and after.
Serving(pc, body, call, result) == [pc |-> pc, body |-> body, call |-> call, result |-> result]

\* POST(request) up to its first await of the provider, or to its end.
RoutePost(body) ==
    /\ Count
    /\ route.pc # "fetching"
    /\ route' = (IF IsProviderCall(BeforeFetch(body))
                 THEN Serving("fetching", body, BeforeFetch(body), Undef)
                 ELSE Serving("done", body, Undef, BeforeFetch(body)))
    /\ last' = Event("POST", "", NoTemplate)
    /\ UNCHANGED <<studioVars, copyVars, refineVars>>

\* The fetch of the provider settles: POST runs to its end.
RouteFetchSettles(reply) ==
    /\ route.pc = "fetching"
    /\ route' = Serving("done", route.body, route.call, AfterFetch(route.call, reply))
    /\ last' = Event("providerReplied", "", NoTemplate)
    /\ UNCHANGED <<studioVars, steps, copyVars, refineVars>>

NextRoute ==
    \/ \E body \in RequestBodies : RoutePost(body)
    \/ \E reply \in ProviderReplies : RouteFetchSettles(reply)

SpecRoute == Init /\ [][NextRoute]_vars

(***************************************************************************)
(* Properties                                                              *)
(***************************************************************************)
\* The rows or tags of a list-typed field of the current snapshot.
Now(k) == Items(heap, state, k)

\* A template was found and loaded by the handler that ran last.
JustLoaded == last.type = "loadTemplate" /\ last.tpl \in DOMAIN templates

\* C1: whatever actions the reducer is given, none of the four tag sets holds
\* a string twice.
C1_NoDuplicateTags ==
    \A k \in ChipKeys : IsRef(state[k]) => NoDuplicates(Now(k))

\* C2: whatever actions the reducer is given, the ids of the variables are
\* pairwise distinct, and so are the ids of the workflow stages.
C2_UniqueIds ==
    \A k \in RowKeys : IsRef(state[k]) => NoDuplicates(IdsOf(Now(k)))

\* A field of the current snapshot holds what createDefaultPromptState gives it
\* (a new row's id apart).
IsDefaultField(k) ==
    IF k \in TextKeys THEN state[k] = Str(<<>>)
    ELSE IF k \in ChipKeys THEN IsRef(state[k]) /\ Now(k) = <<>>
    ELSE /\ IsRef(state[k])
         /\ Len(Now(k)) = 1
         /\ [Now(k)[1] EXCEPT !.id = Str(<<>>)] =
                IF k = "variables" THEN createBlankVariable(Str(<<>>))
                ELSE createBlankWorkflowStage(Str(<<>>))

\* C3: after a template is loaded, no field of the snapshot is undefined, and
\* every field the template's sections lack or hold as undefined has its
\* default value.
C3_UndefinedFallsBack ==
    JustLoaded =>
        \A k \in Keys :
            /\ ~IsUndef(state[k])
            /\ IsUndef(Get(templates[last.tpl], k)) => IsDefaultField(k)

\* C4: through edits, template loads and resets, the variables list and the
\* workflow list each keep at least one entry.
C4_RowsNeverEmpty ==
    \A k \in RowKeys : IsRef(state[k]) /\ Len(Now(k)) >= 1

IsRow(k, r) ==
    /\ DOMAIN r = (IF k = "variables" THEN VariableFields ELSE WorkflowFields)
    /\ \A f \in DOMAIN r : IsStr(r[f]) \/ (k = "variables" /\ f = "example" /\ IsUndef(r[f]))

\* The snapshot s has the shape of PromptState.
IsPromptState(h, s) ==
    /\ DOMAIN s = Keys
    /\ \A k \in TextKeys : IsStr(s[k])
    /\ \A k \in ListKeys : IsRef(s[k])
    /\ \A k \in ChipKeys : \A i \in 1..Len(Items(h, s, k)) : IsStr(Items(h, s, k)[i])
    /\ \A k \in RowKeys : \A i \in 1..Len(Items(h, s, k)) : IsRow(k, Items(h, s, k)[i])

\* C5: after every action the reducer accepts, the snapshot is a valid
\* PromptState: the declared fields, a string in every free-text field, a list
\* in every list-typed field.
C5_AlwaysPromptState == IsPromptState(heap, state)

TemplateCells == {a \in Addr : a[1] \in TemplateIds}

\* C6: a call of the reducer leaves the snapshot it was given, every array
\* reachable from it and the arrays of the template library as they were.
C6_NoMutation ==
    [][/\ prev' = state
       /\ templates' = templates
       /\ \A a \in CellsOf(state) \cup TemplateCells : heap'[a] = heap[a]]_vars

\* removeChip has just acted on an array shared with the template library:
\* the new snapshot has a shorter array, the one it was given still has the
\* template's.
C6_Witness ==
    /\ last.type = "removeChip"
    /\ IsRef(prev[last.key]) /\ IsRef(state[last.key])
    /\ prev[last.key].ref \in TemplateCells
    /\ Len(Now(last.key)) < Len(Items(heap, prev, last.key))

\* C7: a variable or workflow stage keeps its id through every action other
\* than a removal or a hydrate.
C7_IdsNeverChange ==
    [][(last'.type \notin {"removeVariable", "removeWorkflow", "hydrate"}) =>
            \A k \in RowKeys :
                (IsRef(state[k]) /\ IsRef(state'[k])) =>
                    \A i \in 1..Len(heap[state[k].ref]) :
                        /\ i <= Len(heap'[state'[k].ref])
                        /\ RowId(heap'[state'[k].ref][i]) = RowId(heap[state[k].ref][i])]_vars

\* C8: a variable whose name box has been typed in holds a name with no
\* whitespace and no lowercase letter.
C8_EditedNamesNormalized ==
    \A i \in 1..Len(Now("variables")) :
        Now("variables")[i].id \in edited =>
            /\ IsStr(Now("variables")[i].name)
            /\ \A j \in 1..Len(Now("variables")[i].name.str) :
                    /\ ~IsSpace(Now("variables")[i].name.str[j])
                    /\ Now("variables")[i].name.str[j] \notin LowerChars

\* A name typed with lowercase letters and a run of spaces has just been
\* stored in upper case with one underscore.
C8_Witness ==
    /\ last.type = "editName"
    /\ \E i \in 1..Len(Now("variables")) :
            /\ Now("variables")[i].id \in edited
            /\ Now("variables")[i].name = Str(<<"A", "_", "A">>)

\* C9: a list-typed field the loaded template supplies is the template's own
\* list: the same elements in the same order, with the same ids.
C9_TemplateListsWholesale ==
    JustLoaded =>
        \A k \in ListKeys :
            IsRef(Get(templates[last.tpl], k)) =>
                /\ state[k] = templates[last.tpl][k]
                /\ Now(k) = promptTemplates[last.tpl][k].items

\* Template A has just been loaded over a snapshot that had two variables.
C9_Witness ==
    /\ JustLoaded /\ last.tpl = "tplA"
    /\ Len(Items(heap, prev, "variables")) = 2
    /\ Len(Now("variables")) = 1 /\ Len(Now("workflow")) = 2

\* A snapshot by value: every list-typed field with the elements of its array.
ValueOf(h, s) ==
    [k \in Keys |-> IF IsRef(s[k]) THEN [items |-> Items(h, s, k)] ELSE s[k]]

\* A snapshot value with the ids of the rows the template did not supply
\* (those of new blank rows) blanked.
ForgetNewIds(v, sections) ==
    [k \in Keys |->
        IF k \in RowKeys /\ ~IsRef(Get(sections, k)) /\ IsItems(v[k])
        THEN [items |-> [i \in 1..Len(v[k].items) |-> [v[k].items[i] EXCEPT !.id = Str(<<>>)]]]
        ELSE v[k]]

\* Template t merged over the defaults, in a component just mounted.
LoadedValue(t) ==
    LET d == createDefaultPromptState(LibraryHeap(promptTemplates), FirstCells)
    IN  ValueOf(d.heap, Merge(d.state, SectionsOf(promptTemplates, t)))

\* C10: the snapshot after a template load is the template merged over the
\* defaults, whatever the snapshot before held (new rows' ids apart).
C10_LoadReplacesInputs ==
    JustLoaded =>
        ForgetNewIds(ValueOf(heap, state), templates[last.tpl]) =
            ForgetNewIds(LoadedValue(last.tpl), templates[last.tpl])

\* Template B has just been loaded over a snapshot with an objective typed in
\* and a second variable.
C10_Witness ==
    /\ JustLoaded /\ last.tpl = "tplB"
    /\ prev["coreObjective"] = Str(<<"a">>)
    /\ Len(Items(heap, prev, "variables")) = 2
    /\ state["coreObjective"] = Str(<<>>)

\* The list-typed field k of the snapshot the reducer was last given.
Before(k) == Items(heap, prev, k)

\* new is old with the positions in drop taken out, the rest in order.
KeepsOthers(old, new, drop) ==
    /\ Len(new) = Len(old) - Cardinality(drop)
    /\ \A i \in (1..Len(old)) \ drop :
            new[i - Cardinality({j \in drop : j < i})] = old[i]

\* new is old with one more element at the end.
AppendsOne(old, new) ==
    /\ Len(new) = Len(old) + 1
    /\ \A i \in 1..Len(old) : new[i] = old[i]

\* new is old with, at most, one field of the rows of one id changed.
UpdatesInPlace(old, new) ==
    /\ Len(new) = Len(old)
    /\ \E id \in RowIdInputs(old), f \in VariableFields \cup WorkflowFields :
            \A i \in 1..Len(old) :
                /\ DOMAIN new[i] = DOMAIN old[i]
                /\ \A g \in DOMAIN old[i] :
                        (RowId(old[i]) # id \/ g # f) => new[i][g] = old[i][g]

\* C11: addVariable / addWorkflow put the new entry last; removeVariable /
\* removeWorkflow take out the entries of one id and keep the others in
\* order; updateVariable / updateWorkflow leave every entry at its position.
C11_RowOrderPreserved ==
    \A k \in RowKeys :
        (last.key = k /\ IsRef(prev[k]) /\ IsRef(state[k])) =>
            /\ last.type \in {"addVariable", "addWorkflow"} =>
                    AppendsOne(Before(k), Now(k))
            /\ last.type \in {"removeVariable", "removeWorkflow"} =>
                    \E id \in RowIdInputs(Before(k)) :
                        KeepsOthers(Before(k), Now(k),
                            {i \in 1..Len(Before(k)) : RowId(Before(k)[i]) = id})
            /\ last.type \in {"updateVariable", "updateWorkflow"} =>
                    UpdatesInPlace(Before(k), Now(k))

\* The middle one of three workflow stages has just been removed.
C11_Witness ==
    /\ last.type = "removeWorkflow"
    /\ Len(Before("workflow")) = 3
    /\ Now("workflow") = <<Before("workflow")[1], Before("workflow")[3]>>

C13_DerivedFromCurrentSnapshot ==
    /\ memo.compiledPrompt = compilePrompt(heap, state)
    /\ memo.assistant = generateAssistantInsights(heap, state)

\* A tag the set holds has just been added again: the reducer returned the
\* same object, and the prompt shows the tag set and the objective typed in.
C13_Witness ==
    /\ last.type = "addChip" /\ state = prev
    /\ ~IsBlank(state["coreObjective"])
    /\ memo.compiledPrompt # Str(<<>>)
    /\ "coreObjective" \notin {memo.assistant.missingSections[i] :
                                 i \in 1..Len(memo.assistant.missingSections)}

\* C14: a refinement that ends with a non-OK response, a network failure or
\* an unparsable body leaves a message in refineError and nothing in
\* refineOutput, and neither step of handleRefine touches the snapshot.
C14_FailedRefineIsAdvisory ==
    [][/\ last'.type \in {"refine", "refineFailed"} =>
            state' = state /\ heap' = heap /\ memo' = memo
       /\ last'.type = "refineFailed" =>
            Truthy(refineError') /\ IsUndef(refineOutput')]_vars

\* The route has passed on the provider's message for a prompt that was not
\* blank, and the component shows it.
C14_Witness ==
    /\ last.type = "refineFailed"
    /\ refineError = Str(<<"x">>)
    /\ memo.compiledPrompt # Str(<<>>)

\* What the user sees of the component's state.
Visible ==
    <<clipboardStatus, refineError, refineOutput, isRefining, memo, state, activeTemplate>>

\* C15: when writeText rejects, something the user sees changes to report
\* it, and clipboardStatus does not become "copied".
C15_ClipboardErrorSurfaced ==
    [][last'.type = "copyRejected" =>
            /\ Visible' # Visible
            /\ ~(clipboardStatus # "copied" /\ clipboardStatus' = "copied")]_vars

\* The route has answered the request it holds, or thrown.
Done == route.pc = "done"

\* The payload's field as the request carries it: undefined when the body
\* is no object or lacks the field.
Sent(name) == IF IsJson(route.body) THEN Prop(route.body.json, name) ELSE Undef

\* An error response: an error string and nothing else, not a 2xx status.
IsErrorShape(r) ==
    /\ IsResponse(r) /\ ~IsOk(r.status)
    /\ DOMAIN r.body.obj = {"error"} /\ IsStr(r.body.obj["error"])

\* A success response: status 200, at most analysis and refinedPrompt.
IsSuccessShape(r) ==
    /\ IsResponse(r) /\ r.status = 200
    /\ DOMAIN r.body.obj \subseteq {"analysis", "refinedPrompt"}

\* C16: whatever the request and the provider's reply, the route answers
\* with an error response or with a success response, never a mix.
C16_TwoResponseShapes ==
    Done => IsErrorShape(route.result) \/ IsSuccessShape(route.result)

\* The checks of the claim, stated on the request.
PromptBlankOrMissing ==
    \/ IsUndef(Sent("prompt")) \/ IsNull(Sent("prompt"))
    \/ IsStr(Sent("prompt")) /\ IsBlank(Sent("prompt"))

ApiKeyMissing == ~Truthy(Sent("apiKey"))

ProviderSent == Default(Sent("provider"), Str(<<"openai">>))

ProviderUnsupported == ProviderSent \notin {Str(<<"openai">>), Str(<<"openrouter">>)}

\* The message of the first check that fails, undefined when all pass.
FirstFailure ==
    IF ~IsJson(route.body) THEN InvalidJsonMessage
    ELSE IF PromptBlankOrMissing THEN PromptRequiredMessage
    ELSE IF ApiKeyMissing THEN ApiKeyRequiredMessage
    ELSE IF ProviderUnsupported THEN UnsupportedProviderMessage(ProviderSent)
    ELSE Undef

\* The route has called fetch for the request it holds.
Called == route.pc # "idle" /\ IsProviderCall(route.call)

\* C17: the route checks the body, the prompt, the API key and the provider
\* in this order; the first check that fails is answered with 400 and its
\* message, without a call of the provider, which is called only when all
\* four pass.
C17_ValidationOrder ==
    /\ Called => IsUndef(FirstFailure)
    /\ (Done /\ ~IsUndef(FirstFailure)) =>
            route.result = ErrorResponse(400, FirstFailure)

\* C18: a body that parses as JSON is answered with a response; one that is
\* no object, or whose prompt is no string, with status 400 and a message.
C18_AlwaysAnswersJson ==
    (Done /\ IsJson(route.body)) =>
        /\ IsResponse(route.result)
        /\ (~IsObj(route.body.json) \/ ~IsStr(Sent("prompt"))) =>
                route.result.status = 400 /\ IsErrorShape(route.result)

\* C19: with a prompt and an API key that pass, a provider other than the
\* two configured is answered with 400 "Unsupported provider" and fetch is
\* not called; fetch is only called with one of the two configured URLs,
\* with the first for an absent provider.
C19_OnlyConfiguredProviders ==
    /\ (route.pc # "idle" /\ IsJson(route.body) /\ ~PromptBlankOrMissing
            /\ IsStr(Sent("prompt")) /\ ~ApiKeyMissing /\ ProviderUnsupported) =>
            /\ Done /\ ~Called
            /\ route.result = ErrorResponse(400, UnsupportedProviderMessage(ProviderSent))
    /\ Called =>
            /\ route.call.endpoint \in {PROVIDER_ENDPOINTS.openai, PROVIDER_ENDPOINTS.openrouter}
            /\ IsUndef(Sent("provider")) => route.call.endpoint = PROVIDER_ENDPOINTS.openai

\* C20: while a fetch is unsettled isRefining is true and refineError and
\* refineOutput are cleared; isRefining is false once none is; and every
\* refinement that starts ends with isRefining false.
C20_RefineEventuallyFinishes ==
    /\ [](isRefining <=> inflight # <<>>)
    /\ [](inflight # <<>> => IsUndef(refineError) /\ IsUndef(refineOutput))
    /\ (isRefining ~> ~isRefining)

\* A refinement has ended in the catch clause, and the button is enabled
\* again.
C20_Witness ==
    /\ last.type = "refineFailed" /\ refineError = NetworkErrorMessage
    /\ ~isRefining /\ RefineEnabled

\* A fetch of /api/refine has settled in this step.
Settled == last'.type \in {"refineSucceeded", "refineFailed"} /\ inflight' # inflight

\* C21: at most one refinement request is in flight at any time, none is sent
\* with an empty API key, handleRefine is entered only while no earlier call
\* is unresolved, and a response that arrives is that of the latest request.
C21_OneRefineInFlight ==
    /\ [](Len(inflight) <= 1)
    /\ [](\A i \in 1..Len(inflight) : Prop(inflight[i].json, "apiKey") \notin {Undef, Str(<<>>)})
    /\ [][last'.type = "refine" /\ inflight' # inflight
            => inflight = <<>> /\ ~isRefining /\ refineConfig.apiKey # Str(<<>>)]_vars
    /\ [][Settled => inflight = <<inflight[Len(inflight)]>> /\ inflight' = <<>>]_vars

\* A request is in flight after the key was typed and the button clicked, and
\* the button is disabled.
C21_Witness ==
    /\ last.type = "refine"
    /\ Len(inflight) = 1
    /\ isRefining
    /\ ~RefineEnabled

\* The actions that name an id no row of snapshot s has, or remove a tag
\* that a set of s does not hold.
ActionsOfNoEffect(h, s) ==
    {a \in [type : {"removeVariable", "removeWorkflow"}, id : {AbsentId}]
            \cup [type : {"updateVariable"}, id : {AbsentId},
                  field : VariableFields, value : ValueInputs]
            \cup [type : {"updateWorkflow"}, id : {AbsentId},
                  field : WorkflowFields, value : ValueInputs]
            \cup [type : {"removeChip"}, key : ChipKeys, value : ChipInputs] :
        /\ \A k \in ReadsList(a) : IsRef(s[k])
        /\ a.type = "removeChip" => ~Includes(Items(h, s, a.key), a.value)
        /\ a.type # "removeChip" =>
                \A k \in ReadsList(a) :
                    \A i \in 1..Len(Items(h, s, k)) : RowId(Items(h, s, k)[i]) # a.id}

\* The reducer, given a on the current snapshot, returns a snapshot whose
\* every field has the value it had.
LeavesEveryField(a) ==
    LET r == reducer(heap, state, a)
    IN  \A k \in Keys :
            IF k \in ReadsList(a) THEN Items(r.heap, r.state, k) = Items(heap, state, k)
            ELSE /\ r.state[k] = state[k]
                 /\ IsRef(state[k]) => r.heap[state[k].ref] = heap[state[k].ref]

\* This step leaves every field but those of `targets` as it was: the same
\* text, the same array with the same elements.
ChangesOnly(targets) ==
    \A k \in Keys \ targets :
        /\ state'[k] = state[k]
        /\ IsRef(state[k]) => Items(heap', state', k) = Items(heap, state, k)

\* C22 as stated: remove* / update* with an id of no row and removeChip of a
\* value the set lacks leave every field with its value, and every reducer
\* action changes the one field it targets and no other.
C22_OnlyTargetedFieldChanges ==
    /\ [](\A a \in ActionsOfNoEffect(heap, state) : LeavesEveryField(a))
    /\ [][\E k \in Keys : ChangesOnly({k})]_vars

\* C22 amended: as stated, for every reducer action other than hydrate,
\* whose target is the field last.key names.
C22_OnlyTargetedFieldChangesButHydrate ==
    /\ [](\A a \in ActionsOfNoEffect(heap, state) : LeavesEveryField(a))
    /\ [][last'.type # "hydrate" => ChangesOnly({last'.key})]_vars

\* removeVariable with an id of no row has just acted on a snapshot with
\* two rows and an edited text: a new array holds the same rows, and every
\* other field is the one given.
C22_Witness ==
    /\ last.type = "removeVariable"
    /\ state # prev
    /\ Len(Now("variables")) = 2
    /\ ValueOf(heap, state) = ValueOf(heap, prev)
    /\ \A k \in Keys \ {"variables"} : state[k] = prev[k]

\* C23: the active-template marker is undefined until a template is loaded,
\* is the id of the template loaded last afterwards, is left as it was, with
\* the prompt state, by a load request for an unknown id, and is undefined
\* again once "Reset workspace" has put the default snapshot in place.
C23_MarkerNamesLoadedTemplate ==
    /\ activeTemplate = NoTemplate
    /\ [][/\ (last'.type = "loadTemplate" /\ last'.tpl \in DOMAIN templates)
                => activeTemplate' = last'.tpl
          /\ (last'.type = "loadTemplate" /\ last'.tpl \notin DOMAIN templates)
                => activeTemplate' = activeTemplate /\ state' = state /\ heap' = heap
          /\ last'.type = "reset" => activeTemplate' = NoTemplate
          /\ last'.type \notin {"loadTemplate", "reset"}
                => activeTemplate' = activeTemplate]_vars

====
